---- MODULE Spec2Model ----
(***************************************************************************)
(* Zenkai-POML (src/zenkai_poml.py): the PARSE -> SUBSTITUTE -> RENDER     *)
(* pipeline of ZenkaiPOMLProcessor.process_poml and POMLParser.            *)
(*                                                                         *)
(* Texts are TLA+ strings; Len, \o and SubSeq act on them character by     *)
(* character, as Python's len, + and slicing do.  A Python dict is a       *)
(* function from key strings to values.                                    *)
(***************************************************************************)
EXTENDS Integers, Sequences, FiniteSets, TLC

(***************************************************************************)
(* Bounds of the model.                                                    *)
(***************************************************************************)
\* most tokens a markup text is made of
MaxTokens == 4

\* longest list of root children drawn freely from ElementPool
MaxChildren == 2
\* largest max_length argument tried (0 means unlimited)
MaxLength == 2
\* longest text handed to _substitute_variables on its own
MaxTextLen == 6

(***************************************************************************)
(* Python str helpers.                                                     *)
(***************************************************************************)
Ch(s, i) == SubSeq(s, i, i)

IsSpace(c) == c \in {" ", "\n", "\t"}

\* str.lstrip()
RECURSIVE LStrip(_)
LStrip(s) == IF Len(s) > 0 /\ IsSpace(Ch(s, 1)) THEN LStrip(SubSeq(s, 2, Len(s))) ELSE s

\* str.rstrip()
RECURSIVE RStrip(_)
RStrip(s) == IF Len(s) > 0 /\ IsSpace(Ch(s, Len(s))) THEN RStrip(SubSeq(s, 1, Len(s) - 1)) ELSE s

\* str.strip()
Strip(s) == RStrip(LStrip(s))

\* sub in s
Contains(s, sub) == \E i \in 1..(Len(s) - Len(sub) + 1) : SubSeq(s, i, i + Len(sub) - 1) = sub

\* s.startswith(p)
StartsWith(s, p) == Len(p) <= Len(s) /\ SubSeq(s, 1, Len(p)) = p

UpperLetters == "ABCDEFGHIJKLMNOPQRSTUVWXYZ"
LowerLetters == "abcdefghijklmnopqrstuvwxyz"

\* the lower-case letter of each upper-case letter
ToLower ==
    [c \in {Ch(UpperLetters, i) : i \in 1..Len(UpperLetters)} |->
        Ch(LowerLetters, CHOOSE i \in 1..Len(UpperLetters) : Ch(UpperLetters, i) = c)]

LowerChar(c) == IF c \in DOMAIN ToLower THEN ToLower[c] ELSE c

\* str.lower()
RECURSIVE Lower(_)
Lower(s) == IF Len(s) = 0 THEN "" ELSE LowerChar(Ch(s, 1)) \o Lower(SubSeq(s, 2, Len(s)))

\* sep.join(parts)
RECURSIVE Join(_, _)
Join(parts, sep) ==
    IF Len(parts) = 0 THEN ""
    ELSE IF Len(parts) = 1 THEN parts[1]
    ELSE parts[1] \o sep \o Join(Tail(parts), sep)

\* c * n for a one-character string c
RECURSIVE Repeat(_, _)
Repeat(c, n) == IF n <= 0 THEN "" ELSE c \o Repeat(c, n - 1)

Digits == "0123456789"

\* str(n) for a natural number n
RECURSIVE IntToStr(_)
IntToStr(n) == IF n < 10 THEN Ch(Digits, n + 1) ELSE IntToStr(n \div 10) \o Ch(Digits, (n % 10) + 1)

(***************************************************************************)
(* Python dict helpers.                                                    *)
(***************************************************************************)
EmptyDict == [k \in {} |-> ""]

\* d.get(key, default)
Get(d, key, default) == IF key \in DOMAIN d THEN d[key] ELSE default

\* d[key] = value
DictSet(d, key, value) == [k \in (DOMAIN d) \cup {key} |-> IF k = key THEN value ELSE d[k]]

(***************************************************************************)
(* POMLParser._substitute_variables: re.sub over the pattern               *)
(*     \{\{\s*([^}]+)\s*\}\}                                               *)
(* A match at i is "{{", a non-empty run of characters other than "}", and *)
(* "}}"; the run cannot hold a "}", so it ends at the first "}" after the  *)
(* braces.  group(1).strip() is the run stripped, whichever way the two    *)
(* \s* share its blanks.                                                   *)
(***************************************************************************)
\* index of the first "}" at or after k, or Len(text) + 1
RECURSIVE FirstClose(_, _)
FirstClose(text, k) ==
    IF k > Len(text) THEN k
    ELSE IF Ch(text, k) = "}" THEN k
    ELSE FirstClose(text, k + 1)

\* index of the last character of the match starting at i, or 0 if none
MatchEnd(text, i) ==
    IF i + 1 <= Len(text) /\ Ch(text, i) = "{" /\ Ch(text, i + 1) = "{"
    THEN LET k == FirstClose(text, i + 2)
         IN  IF k > i + 2 /\ k + 1 <= Len(text) /\ Ch(text, k + 1) = "}" THEN k + 1 ELSE 0
    ELSE 0

\* a broken replace_var: an unknown placeholder is put back with blanks
\* added inside the braces
replace_var_padded(content, variables) ==
    LET var_name == Strip(content)
    IN  IF var_name \in DOMAIN variables THEN variables[var_name]
        ELSE "{{ " \o content \o " }}"

\* replace_var(match): content is the text between the braces
replace_var(content, variables) ==
    LET var_name == Strip(content)
    IN  IF var_name \in DOMAIN variables THEN variables[var_name]
        ELSE "{{" \o var_name \o "}}"

RECURSIVE SubstFrom(_, _, _)
SubstFrom(text, variables, i) ==
    IF i > Len(text) THEN ""
    ELSE LET e == MatchEnd(text, i)
         IN  IF e = 0 THEN Ch(text, i) \o SubstFrom(text, variables, i + 1)
             ELSE replace_var(SubSeq(text, i + 2, e - 2), variables)
                      \o SubstFrom(text, variables, e + 1)

substitute_variables(text, variables) == SubstFrom(text, variables, 1)

(***************************************************************************)
(* The optional dependencies, DEPENDENCIES_AVAILABLE, are set once at      *)
(* import.  The dict never gets an 'openpyxl' key.                         *)
(***************************************************************************)
DependencyKeys == {"poml", "pandas", "pillow", "pypdf2", "requests", "jsonschema"}

\* the environments tried: the SDK and the schema validator present or not
Environments ==
    { [k \in DependencyKeys |-> IF k = "poml" THEN sdk ELSE IF k = "jsonschema" THEN js ELSE FALSE] :
        sdk \in BOOLEAN, js \in BOOLEAN }

(***************************************************************************)
(* json.loads on the variables_json texts tried.  A JSON value is held as  *)
(* its type, its dict (objects), its length (arrays, strings) and its      *)
(* Python repr.                                                            *)
(***************************************************************************)
JValue(type, dict, len, repr) == [type |-> type, dict |-> dict, len |-> len, repr |-> repr]
JObject(dict) == JValue("object", dict, Cardinality(DOMAIN dict), "{...}")

JsonInputs == {"{bad", "", "{\"t\":\"work\"}", "[1]", "\"ab\"", "5"}

\* json.loads(s): the value, or the JSONDecodeError raised
json_loads(s) ==
    CASE s = "{\"t\":\"work\"}" -> [raises |-> FALSE, msg |-> "", value |-> JObject("t" :> "work")]
      [] s = "{}"     -> [raises |-> FALSE, msg |-> "", value |-> JObject(EmptyDict)]
      [] s = "[1]"    -> [raises |-> FALSE, msg |-> "", value |-> JValue("array", EmptyDict, 1, "[1]")]
      [] s = "\"ab\"" -> [raises |-> FALSE, msg |-> "", value |-> JValue("string", EmptyDict, 2, "'ab'")]
      [] s = "5"      -> [raises |-> FALSE, msg |-> "", value |-> JValue("number", EmptyDict, 0, "5")]
      [] s = "{bad"   -> [raises |-> TRUE, value |-> JObject(EmptyDict),
                          msg |-> "Expecting property name enclosed in double quotes: line 1 column 2 (char 1)"]

\* jsonschema.validate(data, {"type": "object", ...}): the first line of the
\* ValidationError raised, or "" when data is valid
jsonschema_validate(data) ==
    IF data.type = "object" THEN "" ELSE data.repr \o " is not of type 'object'"

\* a broken validator: any text counts as valid JSON
validate_json_context_accept(json_str, deps) ==
    [json_valid |-> TRUE, variables |-> JObject(EmptyDict), json_error |-> "Valid JSON"]

\* POMLParser._validate_json_context
validate_json_context(json_str, deps) ==
    LET loaded == IF Strip(json_str) # "" THEN json_loads(json_str)
                  ELSE [raises |-> FALSE, msg |-> "", value |-> JObject(EmptyDict)]
        data   == loaded.value
    IN  IF loaded.raises
        THEN [json_valid |-> FALSE, variables |-> JObject(EmptyDict),
              json_error |-> "Invalid JSON: " \o loaded.msg]
        ELSE IF Get(deps, "jsonschema", FALSE) /\ jsonschema_validate(data) # ""
        THEN [json_valid |-> FALSE, variables |-> JObject(EmptyDict),
              json_error |-> "JSON schema validation failed: " \o jsonschema_validate(data)]
        ELSE [json_valid |-> TRUE, variables |-> data, json_error |-> "Valid JSON"]

\* self.variables.update(context): the merged dict, or the exception dict.update
\* raises on a context that is no mapping and no sequence of pairs
dict_update(d, context) ==
    CASE context.type = "object" ->
             [raised |-> "none",
              dict |-> [k \in (DOMAIN d) \cup (DOMAIN context.dict) |->
                           IF k \in DOMAIN context.dict THEN context.dict[k] ELSE d[k]]]
      [] context.type \in {"array", "string"} /\ context.len = 0 -> [raised |-> "none", dict |-> d]
      [] context.type = "array" /\ context.len > 0  -> [raised |-> "TypeError", dict |-> d]
      [] context.type = "string" /\ context.len > 0 -> [raised |-> "ValueError", dict |-> d]
      [] OTHER -> [raised |-> "TypeError", dict |-> d]

(***************************************************************************)
(* Markup.  An element is what xml.etree gives: tag, text (the text before *)
(* the first child, "" for None), attrib and the child elements.           *)
(***************************************************************************)
Element(tag, text, attrib, children) ==
    [tag |-> tag, text |-> text, attrib |-> attrib, children |-> children]

Leaf(tag, text) == Element(tag, text, EmptyDict, <<>>)

\* element.find(tag): the index of the first child with that tag, or 0
Find(element, tag) ==
    IF \E i \in 1..Len(element.children) : element.children[i].tag = tag
    THEN CHOOSE i \in 1..Len(element.children) :
             /\ element.children[i].tag = tag
             /\ \A j \in 1..(i - 1) : element.children[j].tag # tag
    ELSE 0

\* element.findall(tag)
FindAll(element, tag) == SelectSeq(element.children, LAMBDA c : c.tag = tag)

\* [x.text or '' for x in elements]
Texts(elements) == [i \in 1..Len(elements) |-> elements[i].text]

(***************************************************************************)
(* POMLParser._preprocess_poml, on the text, and ET.fromstring on the      *)
(* result, for markup made of plain tags with at most quoted attributes    *)
(* (no comments, entities, CDATA or processing instructions).              *)
(***************************************************************************)
\* \w
IsWordChar(c) ==
    \/ \E i \in 1..Len(LowerLetters) : Ch(LowerLetters, i) = c
    \/ \E i \in 1..Len(UpperLetters) : Ch(UpperLetters, i) = c
    \/ \E i \in 1..Len(Digits) : Ch(Digits, i) = c
    \/ c = "_"

\* index of the first c at or after k, or 0
RECURSIVE IndexFrom(_, _, _)
IndexFrom(text, c, k) ==
    IF k > Len(text) THEN 0
    ELSE IF Ch(text, k) = c THEN k
    ELSE IndexFrom(text, c, k + 1)

\* index of the ">" ending the match of <(\w+[^>]*)/> that starts at i, or 0:
\* [^>]* cannot pass a ">", so "/>" can only sit at the first ">" after i
SelfClosingEnd(text, i) ==
    IF i + 1 <= Len(text) /\ Ch(text, i) = "<" /\ IsWordChar(Ch(text, i + 1))
    THEN LET k == IndexFrom(text, ">", i + 1)
         IN  IF k > 0 /\ Ch(text, k - 1) = "/" THEN k ELSE 0
    ELSE 0

\* re.sub(r'<(\w+[^>]*)/>', r'<\1></\1>', text) from index i on
RECURSIVE ExpandSelfClosing(_, _)
ExpandSelfClosing(text, i) ==
    IF i > Len(text) THEN ""
    ELSE LET k == SelfClosingEnd(text, i)
         IN  IF k > 0
             THEN LET group == SubSeq(text, i + 1, k - 2)
                  IN  "<" \o group \o "></" \o group \o ">" \o ExpandSelfClosing(text, k + 1)
             ELSE Ch(text, i) \o ExpandSelfClosing(text, i + 1)

\* POMLParser._preprocess_poml
preprocess_poml(poml_text) ==
    LET rooted == IF StartsWith(Strip(poml_text), "<poml>") THEN poml_text
                  ELSE "<poml>" \o poml_text \o "</poml>"
    IN  ExpandSelfClosing(rooted, 1)

\* the length of the run of name characters at the start of s
RECURSIVE NameLen(_)
NameLen(s) ==
    IF Len(s) > 0 /\ IsWordChar(Ch(s, 1)) THEN 1 + NameLen(SubSeq(s, 2, Len(s))) ELSE 0

\* an XML name made of word characters: it does not start with a digit
IsName(s) ==
    /\ Len(s) > 0
    /\ NameLen(s) = Len(s)
    /\ ~ \E i \in 1..Len(Digits) : Ch(Digits, i) = Ch(s, 1)

\* the attributes of a start tag, s being what follows the tag name:
\* [error, attrib], the error "" when s is a list of name="value"
RECURSIVE XmlAttributes(_, _)
XmlAttributes(s, attrib) ==
    IF Strip(s) = "" THEN [error |-> "", attrib |-> attrib]
    ELSE IF ~IsSpace(Ch(s, 1)) THEN [error |-> "malformed tag", attrib |-> attrib]
    ELSE LET t == LStrip(s)
             n == NameLen(t)
             q == IF n + 2 <= Len(t) THEN IndexFrom(t, "\"", n + 3) ELSE 0
         IN  IF ~(IsName(SubSeq(t, 1, n)) /\ n + 2 <= Len(t) /\ Ch(t, n + 1) = "="
                    /\ Ch(t, n + 2) = "\"" /\ q > 0)
             THEN [error |-> "malformed tag", attrib |-> attrib]
             ELSE IF SubSeq(t, 1, n) \in DOMAIN attrib
             THEN [error |-> "duplicate attribute", attrib |-> attrib]
             ELSE XmlAttributes(SubSeq(t, q + 1, Len(t)),
                                attrib @@ (SubSeq(t, 1, n) :> SubSeq(t, n + 3, q - 1)))

\* a finished element is added to its parent, the last element of the stack
XmlAttach(stack, element) ==
    [stack EXCEPT ![Len(stack)].children = Append(@, element)]

\* the parser of ET.fromstring from index i on: stack holds the elements that
\* are open, root the root element once it is closed.  The result is the tree
\* or a ParseError; of the ParseError only the rule that the text breaks is
\* kept, not the wording and position of the library's message.
RECURSIVE XmlScan(_, _, _, _)
XmlScan(text, i, stack, root) ==
    IF i > Len(text)
    THEN IF Len(root) = 1 THEN [wellformed |-> TRUE, children |-> root[1].children, error |-> ""]
         ELSE [wellformed |-> FALSE, children |-> <<>>, error |-> "no root element"]
    ELSE LET c == Ch(text, i)
             failed(msg) == [wellformed |-> FALSE, children |-> <<>>, error |-> msg]
         IN
         IF c # "<"
         THEN IF Len(stack) = 0
              THEN IF IsSpace(c) THEN XmlScan(text, i + 1, stack, root)
                   ELSE IF Len(root) = 1 THEN failed("content after the root element")
                   ELSE failed("no root element")
              ELSE LET top == stack[Len(stack)]
                   IN  XmlScan(text, i + 1,
                               IF Len(top.children) = 0
                               THEN [stack EXCEPT ![Len(stack)].text = @ \o c] ELSE stack,
                               root)
         ELSE IF Len(root) = 1 THEN failed("content after the root element")
         ELSE LET k == IndexFrom(text, ">", i + 1)
                  body == SubSeq(text, i + 1, k - 1)
              IN
              IF k = 0 THEN failed("unclosed tag")
              ELSE IF StartsWith(body, "/")
              THEN LET name == RStrip(SubSeq(body, 2, Len(body)))
                   IN  IF ~IsName(name) THEN failed("malformed tag")
                       ELSE IF Len(stack) = 0 THEN failed("no root element")
                       ELSE IF stack[Len(stack)].tag # name THEN failed("mismatched tag")
                       ELSE IF Len(stack) = 1
                       THEN XmlScan(text, k + 1, <<>>, <<stack[1]>>)
                       ELSE XmlScan(text, k + 1,
                                    XmlAttach(SubSeq(stack, 1, Len(stack) - 1), stack[Len(stack)]),
                                    root)
              ELSE LET empty == Len(body) > 0 /\ Ch(body, Len(body)) = "/"
                       inner == IF empty THEN SubSeq(body, 1, Len(body) - 1) ELSE body
                       n     == NameLen(inner)
                       attrs == XmlAttributes(SubSeq(inner, n + 1, Len(inner)), EmptyDict)
                       element == Element(SubSeq(inner, 1, n), "", attrs.attrib, <<>>)
                   IN  IF ~IsName(SubSeq(inner, 1, n)) THEN failed("malformed tag")
                       ELSE IF attrs.error # "" THEN failed(attrs.error)
                       ELSE IF ~empty THEN XmlScan(text, k + 1, Append(stack, element), root)
                       ELSE IF Len(stack) = 0 THEN XmlScan(text, k + 1, <<>>, <<element>>)
                       ELSE XmlScan(text, k + 1, XmlAttach(stack, element), root)

\* ET.fromstring(text): the root's children, or the ParseError
fromstring(text) == XmlScan(text, 1, <<>>, <<>>)

(***************************************************************************)
(* The filesystem, as what one path gives when the loader touches it:      *)
(* whether os.path.exists holds, whether open() succeeds, whether the      *)
(* bytes decode as UTF-8, the decoded text, the rows csv.reader yields,    *)
(* the text pandas renders, and the message of the OSError otherwise.      *)
(***************************************************************************)
FileOutcome(exists, opens, utf8, text, rows, frame, error) ==
    [exists |-> exists, opens |-> opens, utf8 |-> utf8, text |-> text,
     rows |-> rows, frame |-> frame, error |-> error]

NoFile == FileOutcome(FALSE, FALSE, FALSE, "", <<>>, "", "")

FileOutcomes ==
    { NoFile,
      FileOutcome(TRUE, TRUE, TRUE, "h,{{t}}\n1,2", <<<<"h", "{{t}}">>, <<"1", "2">>>>, "h {{t}}\n1     2", ""),
      FileOutcome(TRUE, TRUE, FALSE, "e?", <<>>, "", "'utf-8' codec can't decode byte"),
      FileOutcome(TRUE, FALSE, FALSE, "", <<>>, "", "[Errno 13] Permission denied") }

\* index of the last occurrence of c in s, or 0
RECURSIVE LastIndexOf(_, _)
LastIndexOf(s, c) ==
    IF Len(s) = 0 THEN 0
    ELSE IF Ch(s, Len(s)) = c THEN Len(s)
    ELSE LastIndexOf(SubSeq(s, 1, Len(s) - 1), c)

\* os.path.splitext(path)[1]
SplitExt(path) ==
    LET sep == LastIndexOf(path, "/")
        dot == LastIndexOf(path, ".")
    IN  IF dot > sep /\ \E i \in (sep + 1)..(dot - 1) : Ch(path, i) # "."
        THEN SubSeq(path, dot, Len(path))
        ELSE ""

\* a loader's outcome: the text returned, or the exception raised
Returned(text) == [raised |-> FALSE, text |-> text]
Raised(error) == [raised |-> TRUE, text |-> error]

\* the header line, a dash line of its length, then the rows, pipe-joined
FormatRows(rows) ==
    LET header == Join(rows[1], " | ")
        lines  == <<header, Repeat("-", Len(header))>>
                      \o [i \in 1..(Len(rows) - 1) |-> Join(rows[i + 1], " | ")]
    IN  Join(lines, "\n")

\* POMLParser._load_csv_file
load_csv_file(file_path, io, deps) ==
    IF Get(deps, "pandas", FALSE) /\ io.opens /\ io.utf8
    THEN Returned(io.frame)
    ELSE IF ~io.opens \/ ~io.utf8
    THEN Returned("Error loading CSV: " \o io.error)
    ELSE IF Len(io.rows) > 0 THEN Returned(FormatRows(io.rows))
    ELSE Returned("Empty CSV file")

\* POMLParser._load_excel_file
load_excel_file(file_path, io, deps) ==
    IF ~Get(deps, "openpyxl", FALSE)
    THEN Returned("Excel processing requires openpyxl. Install with: pip install openpyxl")
    ELSE IF ~io.opens THEN Returned("Error loading Excel file: " \o io.error)
    ELSE IF Get(deps, "pandas", FALSE) THEN Returned(io.frame)
    ELSE IF Len(io.rows) > 0 THEN Returned(FormatRows(io.rows))
    ELSE Returned("Empty Excel file")

\* POMLParser._load_table_from_file
load_table_from_file(file_path, io, deps) ==
    LET file_ext == Lower(SplitExt(file_path))
    IN  IF file_ext = ".csv" THEN load_csv_file(file_path, io, deps)
        ELSE IF file_ext \in {".xlsx", ".xls"} THEN load_excel_file(file_path, io, deps)
        ELSE IF ~io.opens \/ ~io.utf8 THEN Raised(io.error)
        ELSE Returned(io.text)

\* POMLParser._load_pdf_file
load_pdf_file(file_path, io, deps) ==
    IF ~Get(deps, "pypdf2", FALSE)
    THEN Returned("PDF processing requires PyPDF2. Install with: pip install PyPDF2")
    ELSE IF ~io.opens THEN Returned("Error loading PDF: " \o io.error)
    ELSE Returned(io.text)

\* POMLParser._load_document_from_file: UTF-8 first, then latin-1, which
\* decodes any bytes
load_document_from_file(file_path, io, deps) ==
    LET file_ext == Lower(SplitExt(file_path))
    IN  IF file_ext = ".pdf" THEN load_pdf_file(file_path, io, deps)
        ELSE IF ~io.opens THEN Raised(io.error)
        ELSE Returned(io.text)

(***************************************************************************)
(* The Element Processor.                                                  *)
(***************************************************************************)
\* the loop of _process_example over the children from the i-th on
RECURSIVE ExampleChildren(_, _, _, _)
ExampleChildren(children, variables, i, example) ==
    IF i > Len(children) THEN example
    ELSE LET child      == children[i]
             child_tag  == Lower(child.tag)
             child_text == substitute_variables(Strip(child.text), variables)
             next == IF child_tag = "input" THEN [example EXCEPT !.input = child_text]
                     ELSE IF child_tag \in {"output", "o"} THEN [example EXCEPT !.output = child_text]
                     ELSE example
         IN  ExampleChildren(children, variables, i + 1, next)

\* POMLParser._process_example: [found, example]; found is FALSE for None
process_example(element, variables) ==
    LET fromChildren == ExampleChildren(element.children, variables, 1, [input |-> "", output |-> ""])
        example == IF fromChildren.input = "" /\ fromChildren.output = "" /\ element.text # ""
                   THEN [fromChildren EXCEPT !.input = substitute_variables(Strip(element.text), variables)]
                   ELSE fromChildren
    IN  [found |-> (example.input # "" \/ example.output # ""), example |-> example]

\* POMLParser._process_table: [table_info, loads]
process_table(element, io, deps) ==
    LET title == Get(element.attrib, "title", "Table")
        src   == Get(element.attrib, "src", "")
        info(headers, rows, content) ==
            [title |-> title, src |-> src, headers |-> headers, rows |-> rows, content |-> content]
        thead == Find(element, "thead")
        tbody == Find(element, "tbody")
        header_row == IF thead = 0 THEN 0 ELSE Find(element.children[thead], "tr")
        headers == IF header_row = 0 THEN <<>>
                   ELSE Texts(FindAll(element.children[thead].children[header_row], "th"))
        rows == IF tbody = 0 THEN <<>>
                ELSE LET trs == FindAll(element.children[tbody], "tr")
                     IN  [i \in 1..Len(trs) |-> Texts(FindAll(trs[i], "td"))]
        lines == (IF Len(headers) > 0
                  THEN <<Join(headers, " | "), Repeat("-", Len(Join(headers, " | ")))>>
                  ELSE <<>>)
                 \o [i \in 1..Len(rows) |-> Join(rows[i], " | ")]
        loaded == load_table_from_file(src, io, deps)
    IN  IF src # "" /\ io.exists
        THEN [loads |-> 1,
              table_info |-> info(<<>>, <<>>,
                  IF loaded.raised
                  THEN "Error loading table from " \o src \o ": " \o loaded.text
                  ELSE loaded.text)]
        ELSE [loads |-> 0,
              table_info |-> info(headers, rows,
                  IF Len(headers) > 0 \/ Len(rows) > 0 THEN Join(lines, "\n") ELSE "")]

\* POMLParser._process_document: [doc_info, loads].  The content is element.text
\* as it stands, or what the file gives
process_document(element, io, deps) ==
    LET src    == Get(element.attrib, "src", "")
        loaded == load_document_from_file(src, io, deps)
    IN  [loads |-> IF src # "" /\ io.exists THEN 1 ELSE 0,
         doc_info |-> [src |-> src, title |-> Get(element.attrib, "title", "Document"),
                       content |-> IF src # "" /\ io.exists
                                   THEN (IF loaded.raised THEN "Error loading document: " \o loaded.text
                                         ELSE loaded.text)
                                   ELSE element.text]]

\* the prompt model _parse_with_fallback starts from; 'variables' is the very
\* dict self.variables, so it follows every later binding
EmptyModel(variables) ==
    [role |-> "", task |-> "", examples |-> <<>>, output_format |-> "",
     documents |-> <<>>, tables |-> <<>>, images |-> <<>>, variables |-> variables,
     sdk_used |-> "fallback", raw_elements |-> <<>>, has_error |-> FALSE, error |-> ""]

\* a broken handler: the defaults are returned without the 'error' key
ErrorModel_unflagged(msg) ==
    [EmptyModel(EmptyDict) EXCEPT !.role = "Assistant", !.task = "Help the user",
                                  !.sdk_used = "error"]

\* the model returned on ParseError
ErrorModel(msg) ==
    [EmptyModel(EmptyDict) EXCEPT !.has_error = TRUE, !.error = "POML parsing error: " \o msg,
                                  !.role = "Assistant", !.task = "Help the user",
                                  !.sdk_used = "error"]

\* a broken let: the binding is computed and thrown away
let_binding_lost(element, text, variables) == variables

\* the let branch of _process_element: self.variables after it
let_binding(element, text, variables) ==
    LET var_name  == Get(element.attrib, "name", "")
        var_value == Get(element.attrib, "value", Strip(text))
    IN  IF var_name # ""
        THEN DictSet(variables, var_name, substitute_variables(var_value, variables))
        ELSE variables

\* POMLParser._process_element: [parsed_data, variables, loads]
process_element(element, parsed_data, variables, io, deps) ==
    LET tag  == Lower(element.tag)
        text == substitute_variables(element.text, variables)
        example == process_example(element, variables)
        doc     == process_document(element, io, deps)
        table   == process_table(element, io, deps)
        img_info == [src |-> Get(element.attrib, "src", ""), alt |-> Get(element.attrib, "alt", ""),
                     title |-> Get(element.attrib, "title", "Image")]
        bound == IF tag = "let" THEN let_binding(element, text, variables) ELSE variables
        raw == [tag |-> tag, text |-> text, attributes |-> element.attrib,
                children |-> [i \in 1..Len(element.children) |-> element.children[i].tag]]
        data ==
            CASE tag = "role" -> [parsed_data EXCEPT !.role = Strip(text)]
              [] tag = "task" -> [parsed_data EXCEPT !.task = Strip(text)]
              [] tag \in {"output-format", "output_format"} ->
                     [parsed_data EXCEPT !.output_format = Strip(text)]
              [] tag = "example" ->
                     IF example.found
                     THEN [parsed_data EXCEPT !.examples = Append(@, example.example)]
                     ELSE parsed_data
              [] tag = "document" -> [parsed_data EXCEPT !.documents = Append(@, doc.doc_info)]
              [] tag = "table" -> [parsed_data EXCEPT !.tables = Append(@, table.table_info)]
              [] tag \in {"img", "image"} -> [parsed_data EXCEPT !.images = Append(@, img_info)]
              [] OTHER -> parsed_data
    IN  [parsed_data |-> [data EXCEPT !.raw_elements = Append(@, raw), !.variables = bound],
         variables |-> bound,
         loads |-> IF tag = "document" THEN doc.loads ELSE IF tag = "table" THEN table.loads ELSE 0]

(***************************************************************************)
(* The external SDK: poml.poml either raises or returns messages.          *)
(***************************************************************************)
SdkOutcome(raises, messages) == [raises |-> raises, messages |-> messages, error |-> "sdk error"]

Message(speaker, content) == [speaker |-> speaker, content |-> content]

SdkOutcomes ==
    { SdkOutcome(TRUE, <<>>),
      SdkOutcome(FALSE, <<>>),
      SdkOutcome(FALSE, <<Message("system", "Your Role: x"), Message("human", "do")>>),
      SdkOutcome(FALSE, <<Message("system", "hi"), Message("system", "no")>>) }

\* the message loop of _parse_with_official_sdk from the i-th message on
RECURSIVE SdkMessages(_, _, _)
SdkMessages(messages, i, found) ==
    IF i > Len(messages) THEN found
    ELSE LET message == messages[i]
             content == message.content
             next ==
                 IF message.speaker = "system"
                 THEN IF found.role = "" /\ Contains(Lower(content), "role")
                      THEN [found EXCEPT !.role = content]
                      ELSE IF found.task = "" THEN [found EXCEPT !.task = content]
                      ELSE found
                 ELSE IF message.speaker = "human" /\ found.task = ""
                 THEN [found EXCEPT !.task = content]
                 ELSE found
         IN  SdkMessages(messages, i + 1, next)

\* a broken capability gate: the SDK is tried whether or not it was imported
use_official_sdk_always(deps) == TRUE

\* POMLParser.__init__: self.use_official_sdk
use_official_sdk(deps) == Get(deps, "poml", FALSE)

\* POMLParser._parse_with_official_sdk on a result: the model returned
parse_with_official_sdk(sdk, variables) ==
    LET found == SdkMessages(sdk.messages, 1, [role |-> "", task |-> ""])
    IN  [EmptyModel(variables) EXCEPT
            !.role = IF found.role = "" THEN "AI Assistant" ELSE found.role,
            !.task = IF found.task = "" THEN "Help the user with their request" ELSE found.task,
            !.sdk_used = "official"]

(***************************************************************************)
(* The Renderer.                                                           *)
(***************************************************************************)
\* concatenation of a sequence of sequences
RECURSIVE Flatten(_)
Flatten(seqs) == IF Len(seqs) = 0 THEN <<>> ELSE Head(seqs) \o Flatten(Tail(seqs))

Labelled(style, label, text) == IF style = "optimized" THEN label \o text ELSE text

\* the parts one example adds, i being its number from enumerate(..., 1)
ExampleParts(example, i) ==
    IF example.input # "" /\ example.output # ""
    THEN <<"Example " \o IntToStr(i) \o ":", "Input: " \o example.input,
           "Output: " \o example.output>>
    ELSE IF example.input # ""
    THEN <<"Example " \o IntToStr(i) \o ": " \o example.input>>
    ELSE <<>>

\* a broken renderer: the task is put before the role
RoleTaskParts_task_first(parsed_data, style) ==
    (IF parsed_data.task # "" THEN <<Labelled(style, "Task: ", parsed_data.task)>> ELSE <<>>)
    \o (IF parsed_data.role # "" THEN <<Labelled(style, "Role: ", parsed_data.role)>> ELSE <<>>)

\* the role and task sections (lines 479-491)
RoleTaskParts(parsed_data, style) ==
    (IF parsed_data.role # "" THEN <<Labelled(style, "Role: ", parsed_data.role)>> ELSE <<>>)
    \o (IF parsed_data.task # "" THEN <<Labelled(style, "Task: ", parsed_data.task)>> ELSE <<>>)

\* the examples section (lines 493-503)
ExamplesParts(parsed_data, style) ==
    (IF Len(parsed_data.examples) > 0 /\ style = "optimized" THEN <<"Examples:">> ELSE <<>>)
    \o Flatten([i \in 1..Len(parsed_data.examples) |-> ExampleParts(parsed_data.examples[i], i)])

\* the documents, tables and images sections (lines 505-520)
AttachmentParts(parsed_data) ==
    LET documents == parsed_data.documents
        tables == parsed_data.tables
        images == parsed_data.images
    IN  Flatten([i \in 1..Len(documents) |->
                    IF documents[i].content # ""
                    THEN <<"Document - " \o documents[i].title \o ":", documents[i].content>>
                    ELSE <<>>])
        \o Flatten([i \in 1..Len(tables) |->
                       IF tables[i].content # ""
                       THEN <<"Table - " \o tables[i].title \o ":", tables[i].content>>
                       ELSE <<>>])
        \o Flatten([i \in 1..Len(images) |->
                       IF images[i].alt # ""
                       THEN <<"Image - " \o images[i].title \o ": " \o images[i].alt>>
                       ELSE <<>>])

\* the output format section (lines 522-527)
OutputFormatParts(parsed_data, style) ==
    IF parsed_data.output_format # ""
    THEN <<Labelled(style, "Output Format: ", parsed_data.output_format)>> ELSE <<>>

\* the list `parts` that render builds
RenderParts(parsed_data, style) ==
    RoleTaskParts(parsed_data, style)
        \o ExamplesParts(parsed_data, style)
        \o AttachmentParts(parsed_data)
        \o OutputFormatParts(parsed_data, style)

\* POMLParser.render
render(parsed_data, style) ==
    LET parts == RenderParts(parsed_data, style)
    IN  IF style = "debug"
        THEN "\n\n=== DEBUG MODE ===\n"
                 \o Join([i \in 1..Len(parts) |-> "[" \o IntToStr(i) \o "] " \o parts[i]], "\n\n")
        ELSE Join(parts, "\n\n")

(***************************************************************************)
(* The returns of ZenkaiPOMLProcessor.process_poml.  The metadata is the   *)
(* dict handed to json.dumps.                                              *)
(***************************************************************************)
RenderModes == {"standard", "optimized", "debug"}

\* the return on invalid variables
json_error_return(json_error, render_mode) ==
    [prompt |-> "JSON Variables Error: " \o json_error \o "\n\nFallback prompt active.",
     metadata |-> [error |-> json_error, mode |-> render_mode]]

\* the return on a model that carries 'error'
parse_error_return(parsed_data, render_mode, deps) ==
    [prompt |-> "POML Error: " \o parsed_data.error \o "\n\nFallback: "
                    \o parsed_data.role \o " - " \o parsed_data.task,
     metadata |-> [error |-> parsed_data.error, mode |-> render_mode, dependencies |-> deps]]

\* a broken length limit: the marker is not appended
apply_length_limit_no_marker(rendered_prompt, max_length) ==
    IF max_length > 0 /\ Len(rendered_prompt) > max_length
    THEN SubSeq(rendered_prompt, 1, max_length)
    ELSE rendered_prompt

\* the length limit
apply_length_limit(rendered_prompt, max_length) ==
    IF max_length > 0 /\ Len(rendered_prompt) > max_length
    THEN SubSeq(rendered_prompt, 1, max_length) \o "..."
    ELSE rendered_prompt

\* a broken summary: the length is taken before the limit is applied
build_metadata_stale_length(parsed_data, render_mode, rendered_prompt, deps) ==
    [mode |-> render_mode,
     sdk_used |-> parsed_data.sdk_used,
     components_found |->
         [role |-> parsed_data.role # "",
          task |-> parsed_data.task # "",
          examples |-> Len(parsed_data.examples),
          documents |-> Len(parsed_data.documents),
          tables |-> Len(parsed_data.tables),
          images |-> Len(parsed_data.images),
          output_format |-> parsed_data.output_format # ""],
     variables_used |-> DOMAIN parsed_data.variables,
     prompt_length |-> Len(render(parsed_data, render_mode)),
     dependencies_status |-> deps,
     features_available |->
         [official_poml_sdk |-> Get(deps, "poml", FALSE),
          advanced_tables |-> Get(deps, "pandas", FALSE),
          pdf_processing |-> Get(deps, "pypdf2", FALSE),
          image_processing |-> Get(deps, "pillow", FALSE),
          external_data |-> Get(deps, "requests", FALSE),
          json_validation |-> Get(deps, "jsonschema", FALSE)]]

\* the metadata of the normal return
build_metadata(parsed_data, render_mode, rendered_prompt, deps) ==
    [mode |-> render_mode,
     sdk_used |-> parsed_data.sdk_used,
     components_found |->
         [role |-> parsed_data.role # "",
          task |-> parsed_data.task # "",
          examples |-> Len(parsed_data.examples),
          documents |-> Len(parsed_data.documents),
          tables |-> Len(parsed_data.tables),
          images |-> Len(parsed_data.images),
          output_format |-> parsed_data.output_format # ""],
     variables_used |-> DOMAIN parsed_data.variables,
     prompt_length |-> Len(rendered_prompt),
     dependencies_status |-> deps,
     features_available |->
         [official_poml_sdk |-> Get(deps, "poml", FALSE),
          advanced_tables |-> Get(deps, "pandas", FALSE),
          pdf_processing |-> Get(deps, "pypdf2", FALSE),
          image_processing |-> Get(deps, "pillow", FALSE),
          external_data |-> Get(deps, "requests", FALSE),
          json_validation |-> Get(deps, "jsonschema", FALSE)]]

(***************************************************************************)
(* The markup texts tried, each held as what ET.fromstring makes of the    *)
(* normalized text: the children of the root, or the ParseError raised.    *)
(***************************************************************************)
Wellformed(children) == [wellformed |-> TRUE, children |-> children, error |-> ""]
Malformed(msg) == [wellformed |-> FALSE, children |-> <<>>, error |-> msg]

\* <example><input>{{t}}</input><output>o</output></example>
ExampleElement == Element("example", "", EmptyDict, <<Leaf("input", "{{t}}"), Leaf("output", "o")>>)

\* <let name="t" value="v"></let>
LetElement == Element("let", "", ("name" :> "t") @@ ("value" :> "v"), <<>>)

\* <table><thead><tr><th>h</th><th>{{t}}</th></tr></thead>
\*        <tbody><tr><td>1</td><td>{{t}}</td></tr></tbody></table>
TableElement ==
    Element("table", "", EmptyDict,
        << Element("thead", "", EmptyDict,
               <<Element("tr", "", EmptyDict, <<Leaf("th", "h"), Leaf("th", "{{t}}")>>)>>),
           Element("tbody", "", EmptyDict,
               <<Element("tr", "", EmptyDict, <<Leaf("td", "1"), Leaf("td", "{{t}}")>>)>>) >>)

ElementPool ==
    { Leaf("role", "Hi"),
      Leaf("task", "Do {{t}}"),
      LetElement,
      Leaf("document", "{{t}}"),
      ExampleElement,
      Element("img", "", ("alt" :> "a"), <<>>) }

\* the sequences over S of length at most n
RECURSIVE SeqsUpTo(_, _)
SeqsUpTo(S, n) ==
    IF n = 0 THEN {<<>>}
    ELSE LET shorter == SeqsUpTo(S, n - 1)
         IN  shorter \cup {Append(q, x) : q \in {r \in shorter : Len(r) = n - 1}, x \in S}

\* <poml><role>Hi</role><task>Do {{t}}</task></poml>
HiTemplate == Wellformed(<<Leaf("role", "Hi"), Leaf("task", "Do {{t}}")>>)

\* every kind of element, in the reverse of the rendering order
FullTemplate ==
    Wellformed(<< Leaf("output-format", " {{ t }} "),
                  Element("image", "", ("alt" :> "a") @@ ("title" :> "I"), <<>>),
                  TableElement,
                  Leaf("document", "d"),
                  ExampleElement,
                  Leaf("task", "T"),
                  Leaf("role", "R") >>)

\* a binding taken from the element's text, an unknown tag and an upper-case tag
LetTextTemplate ==
    Wellformed(<< Leaf("hint", "{{u}}"),
                  Element("let", " {{t}}x ", ("name" :> "u"), <<>>),
                  Leaf("Output_Format", " {{ u }} ") >>)

\* a reference before the binding and one after it
LetOrderTemplate ==
    Wellformed(<<Leaf("task", "Do {{t}}"), LetElement, Leaf("role", " {{ t }}")>>)

\* a document and a table that name files
SrcTemplate ==
    Wellformed(<< Element("document", "{{t}}", ("src" :> "f.txt"), <<>>),
                  Element("table", "", ("src" :> "d.csv") @@ ("title" :> "D"), <<>>) >>)

\* an example with an output and no input, then one with both sides
OutputOnlyTemplate ==
    Wellformed(<< Element("example", "", EmptyDict, <<Leaf("output", "p")>>),
                  ExampleElement >>)

\* <poml><role>Hi</role>: no closing root tag
MalformedTemplate == Malformed("no element found: line 1, column 21")

Templates ==
    {Wellformed(c) : c \in SeqsUpTo(ElementPool, MaxChildren)}
        \cup {HiTemplate, FullTemplate, LetTextTemplate, LetOrderTemplate, SrcTemplate,
              OutputOnlyTemplate, MalformedTemplate}

(***************************************************************************)
(* State.                                                                  *)
(***************************************************************************)
VARIABLES
    DEPENDENCIES_AVAILABLE, \* the module-level capability flags
    pc,                     \* where the call of process_poml stands
    poml_template,          \* argument: the markup
    render_mode,            \* argument: the style
    variables_json,         \* argument: the variables, as JSON text
    max_length,             \* argument: the length limit
    variables,              \* process_poml's `variables`: the validated JSON value
    parser_variables,       \* parser.variables, the Variable Scope
    parsed_data,            \* the Prompt Model
    idx,                    \* position of `for element in root`
    result,                 \* the (prompt, metadata) pair returned
    exception,              \* the exception that left process_poml, or "none"
    sdk_result,             \* "none", "ok" or "failed": how the SDK attempt went
    calls,                  \* how often the parsers, the element processor and the loaders ran
    subst,                  \* a call of _substitute_variables on its own
    normalized,             \* a markup text on its way through _preprocess_poml and ET.fromstring
    suspended               \* the locals of a second call of process_poml, in a thread that is not running

vars == <<DEPENDENCIES_AVAILABLE, pc, poml_template, render_mode, variables_json, max_length,
          variables, parser_variables, parsed_data, idx, result, exception, sdk_result,
          calls, subst, normalized, suspended>>

pipeline == <<pc, poml_template, render_mode, variables_json, max_length,
              variables, parser_variables, parsed_data, idx, result, exception, sdk_result,
              calls>>

NoResult == [prompt |-> "", metadata |-> EmptyDict]
NoCalls == [sdk |-> 0, fallback |-> 0, elements |-> 0, loads |-> 0]
NoSubst ==
    [text |-> "", variables |-> EmptyDict, out |-> "", done |-> FALSE,
     twice |-> "", redone |-> FALSE]
NoMarkup == [text |-> "", cleaned_poml |-> "", root |-> Wellformed(<<>>), at |-> "none"]

\* the locals of a call that has not begun
IdleFrame ==
    [pc |-> "idle", poml_template |-> Wellformed(<<>>), render_mode |-> "standard",
     variables_json |-> "", max_length |-> 0, variables |-> JObject(EmptyDict),
     parser_variables |-> EmptyDict, parsed_data |-> EmptyModel(EmptyDict), idx |-> 0,
     result |-> NoResult, exception |-> "none", sdk_result |-> "none", calls |-> NoCalls]

\* no call of process_poml has been made
Idle ==
    /\ pc = "idle"
    /\ poml_template = Wellformed(<<>>)
    /\ render_mode = "standard"
    /\ variables_json = ""
    /\ max_length = 0
    /\ variables = JObject(EmptyDict)
    /\ parser_variables = EmptyDict
    /\ parsed_data = EmptyModel(EmptyDict)
    /\ idx = 0
    /\ result = NoResult
    /\ exception = "none"
    /\ sdk_result = "none"
    /\ calls = NoCalls

Init ==
    /\ DEPENDENCIES_AVAILABLE \in Environments
    /\ Idle
    /\ subst = NoSubst
    /\ normalized = NoMarkup
    /\ suspended = IdleFrame

(***************************************************************************)
(* process_poml, step by step.                                             *)
(***************************************************************************)
\* the call, and the validation of the variables (lines 572-581), the
\* arguments drawn from the given sets
Call(templates, modes, jsons, lengths) ==
    /\ pc = "idle"
    /\ \E t \in templates, mode \in modes, json \in jsons, len \in lengths :
        LET v == validate_json_context(json, DEPENDENCIES_AVAILABLE)
        IN  /\ poml_template' = t
            /\ render_mode' = mode
            /\ variables_json' = json
            /\ max_length' = len
            /\ variables' = v.variables
            /\ IF v.json_valid
               THEN pc' = "parse" /\ result' = result
               ELSE pc' = "returned" /\ result' = json_error_return(v.json_error, mode)
    /\ UNCHANGED <<DEPENDENCIES_AVAILABLE, parser_variables, parsed_data, idx, exception,
                   sdk_result, calls, subst, normalized, suspended>>

ProcessPoml == Call(Templates, RenderModes, JsonInputs, 0..MaxLength)

\* parser = POMLParser(); parser.parse(poml_template, variables) up to the choice
\* of parser (lines 583-588, 74-88)
Parse ==
    /\ pc = "parse"
    /\ LET context == IF variables.type = "null" THEN JObject(EmptyDict) ELSE variables
           updated == dict_update(EmptyDict, context)
       IN  IF updated.raised # "none"
           THEN /\ pc' = "raised"
                /\ exception' = updated.raised
                /\ parser_variables' = parser_variables
           ELSE /\ pc' = IF use_official_sdk(DEPENDENCIES_AVAILABLE) THEN "sdk" ELSE "fallback"
                /\ exception' = exception
                /\ parser_variables' = updated.dict
    /\ UNCHANGED <<DEPENDENCIES_AVAILABLE, poml_template, render_mode, variables_json,
                   max_length, variables, parsed_data, idx, result, sdk_result, calls,
                   subst, normalized, suspended>>

\* the attempt with the SDK; a failure is caught and leads to the built-in
\* parser (lines 88-92, 97-147)
ParseWithOfficialSdk ==
    /\ pc = "sdk"
    /\ \E sdk \in SdkOutcomes :
        IF sdk.raises
        THEN /\ pc' = "fallback"
             /\ sdk_result' = "failed"
             /\ parsed_data' = parsed_data
        ELSE /\ pc' = "check"
             /\ sdk_result' = "ok"
             /\ parsed_data' = parse_with_official_sdk(sdk, parser_variables)
    /\ calls' = [calls EXCEPT !.sdk = @ + 1]
    /\ UNCHANGED <<DEPENDENCIES_AVAILABLE, poml_template, render_mode, variables_json,
                   max_length, variables, parser_variables, idx, result, exception,
                   subst, normalized, suspended>>

\* _parse_with_fallback up to its loop: the tree is built, or ParseError is
\* caught (lines 149-170, 178-191)
ParseWithFallback ==
    /\ pc = "fallback"
    /\ IF poml_template.wellformed
       THEN /\ parsed_data' = EmptyModel(parser_variables)
            /\ idx' = 1
            /\ pc' = IF Len(poml_template.children) = 0 THEN "check" ELSE "elements"
       ELSE /\ parsed_data' = ErrorModel(poml_template.error)
            /\ idx' = idx
            /\ pc' = "check"
    /\ calls' = [calls EXCEPT !.fallback = @ + 1]
    /\ UNCHANGED <<DEPENDENCIES_AVAILABLE, poml_template, render_mode, variables_json,
                   max_length, variables, parser_variables, result, exception, sdk_result,
                   subst, normalized, suspended>>

\* one turn of `for element in root` (lines 173-174, 206-256)
ProcessElement ==
    /\ pc = "elements"
    /\ LET element == poml_template.children[idx]
       IN  \E io \in (IF Get(element.attrib, "src", "") # "" THEN FileOutcomes ELSE {NoFile}) :
             LET r == process_element(element, parsed_data, parser_variables, io,
                                      DEPENDENCIES_AVAILABLE)
             IN  /\ parsed_data' = r.parsed_data
                 /\ parser_variables' = r.variables
                 /\ calls' = [calls EXCEPT !.elements = @ + 1, !.loads = @ + r.loads]
    /\ idx' = idx + 1
    /\ pc' = IF idx = Len(poml_template.children) THEN "check" ELSE "elements"
    /\ UNCHANGED <<DEPENDENCIES_AVAILABLE, poml_template, render_mode, variables_json,
                   max_length, variables, result, exception, sdk_result,
                   subst, normalized, suspended>>

\* the model carries 'error' (lines 589-597)
ReturnParseError ==
    /\ pc = "check"
    /\ parsed_data.has_error
    /\ result' = parse_error_return(parsed_data, render_mode, DEPENDENCIES_AVAILABLE)
    /\ pc' = "returned"
    /\ UNCHANGED <<DEPENDENCIES_AVAILABLE, poml_template, render_mode, variables_json,
                   max_length, variables, parser_variables, parsed_data, idx, exception,
                   sdk_result, calls, subst, normalized, suspended>>

\* render, limit the length, build the metadata (lines 599-632)
RenderAndReturn ==
    /\ pc = "check"
    /\ ~parsed_data.has_error
    /\ LET rendered_prompt == apply_length_limit(render(parsed_data, render_mode), max_length)
       IN  result' = [prompt |-> rendered_prompt,
                      metadata |-> build_metadata(parsed_data, render_mode, rendered_prompt,
                                                  DEPENDENCIES_AVAILABLE)]
    /\ pc' = "returned"
    /\ UNCHANGED <<DEPENDENCIES_AVAILABLE, poml_template, render_mode, variables_json,
                   max_length, variables, parser_variables, parsed_data, idx, exception,
                   sdk_result, calls, subst, normalized, suspended>>

Next ==
    \/ ProcessPoml
    \/ Parse
    \/ ParseWithOfficialSdk
    \/ ParseWithFallback
    \/ ProcessElement
    \/ ReturnParseError
    \/ RenderAndReturn

Spec == Init /\ [][Next]_vars

(***************************************************************************)
(* _substitute_variables on its own, over every short text of braces,      *)
(* blanks and one name, and the texts of the documentation.                *)
(***************************************************************************)
SubstAlphabet == {"{", "}", " ", "y"}

\* the strings over A of length at most n
RECURSIVE Strs(_, _)
Strs(A, n) ==
    IF n = 0 THEN {""}
    ELSE LET shorter == Strs(A, n - 1)
         IN  shorter \cup {s \o c : s \in {r \in shorter : Len(r) = n - 1}, c \in A}

SubstTexts == Strs(SubstAlphabet, MaxTextLen) \cup {"a {{x}} b", "a {{ y }} b", "{{x}}{{ y }}"}

SubstScopes == {EmptyDict, "x" :> "5", "y" :> "5"}

\* no optional dependency installed
BareEnvironment == [k \in DependencyKeys |-> FALSE]

InitSubst ==
    /\ DEPENDENCIES_AVAILABLE = BareEnvironment
    /\ Idle
    /\ subst \in {[NoSubst EXCEPT !.text = s, !.variables = scope] :
                     s \in SubstTexts, scope \in SubstScopes}
    /\ normalized = NoMarkup
    /\ suspended = IdleFrame

\* one call of _substitute_variables (lines 467-473)
SubstituteVariables ==
    /\ ~subst.done
    /\ subst' = [subst EXCEPT !.out = substitute_variables(subst.text, subst.variables),
                              !.done = TRUE]
    /\ UNCHANGED <<DEPENDENCIES_AVAILABLE, pipeline, normalized, suspended>>

\* _substitute_variables applied to its own result, as when a text that was
\* substituted once is processed again (lines 467-473)
SubstituteAgain ==
    /\ subst.done /\ ~subst.redone
    /\ subst' = [subst EXCEPT !.twice = substitute_variables(subst.out, subst.variables),
                              !.redone = TRUE]
    /\ UNCHANGED <<DEPENDENCIES_AVAILABLE, pipeline, normalized, suspended>>

NextSubst == SubstituteVariables \/ SubstituteAgain

SpecSubst == InitSubst /\ [][NextSubst]_vars

(***************************************************************************)
(* Two calls of process_poml in two threads.  The variables of the         *)
(* pipeline are the locals of the call whose thread is running; those of   *)
(* the other call are kept in `suspended`.  The only object both calls can *)
(* reach is DEPENDENCIES_AVAILABLE: each call makes its own POMLParser     *)
(* (line 584), and ZenkaiPOMLProcessor keeps no attribute.                 *)
(***************************************************************************)
RunTemplates == {HiTemplate, LetOrderTemplate, MalformedTemplate}
RunJsons == {"", "{\"t\":\"work\"}"}

\* the locals of the running call
Frame ==
    [pc |-> pc, poml_template |-> poml_template, render_mode |-> render_mode,
     variables_json |-> variables_json, max_length |-> max_length, variables |-> variables,
     parser_variables |-> parser_variables, parsed_data |-> parsed_data, idx |-> idx,
     result |-> result, exception |-> exception, sdk_result |-> sdk_result, calls |-> calls]

\* a broken model of the parser: its variables are one dict for all calls, so
\* a call that resumes sees the names the other call has put there
resume_shared_variables(frame) ==
    [frame EXCEPT !.parser_variables = parser_variables @@ @,
                  !.parsed_data.variables = parser_variables @@ @]

\* the locals a call finds when its thread runs again: its own, as
\* parser and parsed_data are objects made by this call (lines 584, 158-170)
resume(frame) == frame

InitRuns ==
    /\ DEPENDENCIES_AVAILABLE \in Environments
    /\ Idle
    /\ subst = NoSubst
    /\ normalized = NoMarkup
    /\ suspended = IdleFrame

ProcessPomlRun == Call(RunTemplates, {"standard"}, RunJsons, {0})

\* the running thread is suspended and the other one runs
Switch ==
    LET frame == resume(suspended)
    IN  /\ suspended' = Frame
        /\ pc' = frame.pc
        /\ poml_template' = frame.poml_template
        /\ render_mode' = frame.render_mode
        /\ variables_json' = frame.variables_json
        /\ max_length' = frame.max_length
        /\ variables' = frame.variables
        /\ parser_variables' = frame.parser_variables
        /\ parsed_data' = frame.parsed_data
        /\ idx' = frame.idx
        /\ result' = frame.result
        /\ exception' = frame.exception
        /\ sdk_result' = frame.sdk_result
        /\ calls' = frame.calls
        /\ UNCHANGED <<DEPENDENCIES_AVAILABLE, subst, normalized>>

NextRuns ==
    \/ ProcessPomlRun
    \/ Parse
    \/ ParseWithOfficialSdk
    \/ ParseWithFallback
    \/ ProcessElement
    \/ ReturnParseError
    \/ RenderAndReturn
    \/ Switch

SpecRuns == InitRuns /\ [][NextRuns]_vars

(***************************************************************************)
(* Tables and documents that name files, in the environments of the main   *)
(* specification and in the one where every optional import succeeded.     *)
(***************************************************************************)
\* every import of lines 28-69 succeeded
FullEnvironment == [k \in DependencyKeys |-> TRUE]

\* <poml><table src="d.xlsx" title="D"></table></poml>
SheetTemplate ==
    Wellformed(<<Element("table", "", ("src" :> "d.xlsx") @@ ("title" :> "D"), <<>>)>>)

InitFiles ==
    /\ DEPENDENCIES_AVAILABLE \in Environments \cup {FullEnvironment}
    /\ Idle
    /\ subst = NoSubst
    /\ normalized = NoMarkup
    /\ suspended = IdleFrame

ProcessPomlFiles ==
    Call({SheetTemplate, SrcTemplate, MalformedTemplate}, RenderModes,
         {"", "{\"t\":\"work\"}"}, {0})

NextFiles ==
    \/ ProcessPomlFiles
    \/ Parse
    \/ ParseWithOfficialSdk
    \/ ParseWithFallback
    \/ ProcessElement
    \/ ReturnParseError
    \/ RenderAndReturn

SpecFiles == InitFiles /\ [][NextFiles]_vars

(***************************************************************************)
(* _preprocess_poml and ET.fromstring on their own (lines 153 and 156),    *)
(* over every markup text made of at most MaxTokens pieces of tags.        *)
(***************************************************************************)
MarkupTokens == {"<poml>", "</poml>", "<a", " b=\"c\"", "/>", ">", "</a>", "x", " "}

\* the texts made of at most n tokens
RECURSIVE MarkupTexts(_)
MarkupTexts(n) ==
    IF n = 0 THEN {""}
    ELSE LET shorter == MarkupTexts(n - 1)
         IN  shorter \cup {s \o t : s \in shorter, t \in MarkupTokens}

InitPreprocess ==
    /\ DEPENDENCIES_AVAILABLE = BareEnvironment
    /\ Idle
    /\ subst = NoSubst
    /\ normalized \in {[NoMarkup EXCEPT !.text = t, !.at = "text"] : t \in MarkupTexts(MaxTokens)}
    /\ suspended = IdleFrame

\* cleaned_poml = self._preprocess_poml(poml_text) (line 153)
PreprocessPoml ==
    /\ normalized.at = "text"
    /\ normalized' = [normalized EXCEPT !.cleaned_poml = preprocess_poml(normalized.text),
                                        !.at = "cleaned"]
    /\ UNCHANGED <<DEPENDENCIES_AVAILABLE, pipeline, subst, suspended>>

\* root = ET.fromstring(cleaned_poml) (line 156)
FromString ==
    /\ normalized.at = "cleaned"
    /\ normalized' = [normalized EXCEPT !.root = fromstring(normalized.cleaned_poml),
                                        !.at = "parsed"]
    /\ UNCHANGED <<DEPENDENCIES_AVAILABLE, pipeline, subst, suspended>>

NextPreprocess == PreprocessPoml \/ FromString

SpecPreprocess == InitPreprocess /\ [][NextPreprocess]_vars

(***************************************************************************)
(* Properties.                                                             *)
(***************************************************************************)
\* the call has come back with a (prompt, metadata) pair
Returned_ == pc = "returned"

\* the parser ran and gave a model without 'error': the normal return path
NormalPath == (calls.sdk > 0 \/ calls.fallback > 0) /\ ~parsed_data.has_error

\* json.loads rejects the variables text
MalformedJson(json) == Strip(json) # "" /\ json_loads(json).raises

\* the built-in parser is walking, or has walked, the children of the root
Walking == calls.fallback > 0 /\ pc \in {"elements", "check", "returned"}

\* C1: whatever the markup, the variables text (valid JSON that is no object
\* included), the style and the length limit, process_poml comes back with a
\* pair: no exception leaves it.
C1_NoExceptionEscapes == pc # "raised" /\ exception = "none"

\* the scope after a child, given the scope before it: a named let binds its
\* value, resolved under the scope before it; any other child binds nothing
C2_Bind(before, e) ==
    LET value == IF "value" \in DOMAIN e.attrib THEN e.attrib["value"]
                 ELSE Strip(substitute_variables(e.text, before))
    IN  IF Lower(e.tag) = "let" /\ "name" \in DOMAIN e.attrib /\ e.attrib["name"] # ""
        THEN [k \in (DOMAIN before) \cup {e.attrib["name"]} |->
                 IF k = e.attrib["name"] THEN substitute_variables(value, before)
                 ELSE before[k]]
        ELSE before

\* the scopes the first n + 1 children of the root are processed under: the i-th
\* is the caller's variables overridden by the named lets among the children
\* before the i-th
RECURSIVE C2_Scopes(_)
C2_Scopes(n) ==
    IF n = 0 THEN <<variables.dict>>
    ELSE LET before == C2_Scopes(n - 1)
         IN  Append(before, C2_Bind(before[n], poml_template.children[n]))

\* the text a field holds after the first n children: that of the last child with
\* one of the tags, resolved under the scope of the children before that child
C2_Field(tags, n, scopes) ==
    LET with == {i \in 1..n : Lower(poml_template.children[i].tag) \in tags}
        i    == CHOOSE k \in with : \A j \in with : j <= k
    IN  IF with = {} THEN ""
        ELSE Strip(substitute_variables(poml_template.children[i].text, scopes[i]))

\* C2: the children of the root are processed in document order, and a named let
\* binds its substituted value for exactly the siblings after it: at every moment
\* each processed child's text is its text resolved under the caller's variables
\* and the lets before it, so a later binding never changes an earlier sibling.
C2_LetBindsLaterSiblings ==
    Walking /\ ~parsed_data.has_error =>
        LET n      == Len(parsed_data.raw_elements)
            scopes == C2_Scopes(n)
        IN  /\ n = idx - 1
            /\ \A i \in 1..n :
                   parsed_data.raw_elements[i].text =
                       substitute_variables(poml_template.children[i].text, scopes[i])
            /\ parser_variables = scopes[n + 1]
            /\ parsed_data.role = C2_Field({"role"}, n, scopes)
            /\ parsed_data.task = C2_Field({"task"}, n, scopes)
            /\ parsed_data.output_format = C2_Field({"output-format", "output_format"}, n, scopes)

\* C2's case: {{t}} before the let kept the caller's value, {{t}} after it took
\* the bound one
C2_Witness ==
    /\ Returned_
    /\ poml_template = LetOrderTemplate
    /\ variables.dict = ("t" :> "work")
    /\ parsed_data.task = "Do work"
    /\ parsed_data.role = "v"

\* text holds a placeholder whose name is in the scope
HasKnownPlaceholder(text, scope) ==
    \E i \in 1..Len(text) :
        /\ MatchEnd(text, i) # 0
        /\ Strip(SubSeq(text, i + 2, MatchEnd(text, i) - 2)) \in DOMAIN scope

\* C3: every textual field the built-in parser stores has been substituted: the
\* fields stored for the child just processed (role, task, output_format, example
\* sides, inline document content, table headers, cells and content) hold no
\* placeholder of a name that was in scope.
C3_FieldsSubstituted ==
    Walking /\ ~parsed_data.has_error /\ idx > 1 =>
        LET e     == poml_template.children[idx - 1]
            tag   == Lower(e.tag)
            clean(text) == ~HasKnownPlaceholder(text, parser_variables)
            inline == Get(e.attrib, "src", "") = ""
            last(q) == q[Len(q)]
        IN  /\ tag = "role" => clean(parsed_data.role)
            /\ tag = "task" => clean(parsed_data.task)
            /\ tag \in {"output-format", "output_format"} => clean(parsed_data.output_format)
            /\ tag = "example" /\ Len(parsed_data.examples) > 0 =>
                   clean(last(parsed_data.examples).input) /\ clean(last(parsed_data.examples).output)
            /\ tag = "document" /\ inline => clean(last(parsed_data.documents).content)
            /\ tag = "table" /\ inline =>
                   /\ \A h \in 1..Len(last(parsed_data.tables).headers) :
                          clean(last(parsed_data.tables).headers[h])
                   /\ \A r \in 1..Len(last(parsed_data.tables).rows) :
                          \A c \in 1..Len(last(parsed_data.tables).rows[r]) :
                              clean(last(parsed_data.tables).rows[r][c])
                   /\ clean(last(parsed_data.tables).content)

\* text with every placeholder of a known name replaced by its value and every
\* other character, the unknown placeholders included, kept as it is
RECURSIVE C4_KeepUnknown(_, _, _)
C4_KeepUnknown(text, scope, i) ==
    IF i > Len(text) THEN ""
    ELSE LET e    == MatchEnd(text, i)
             name == Strip(SubSeq(text, i + 2, e - 2))
         IN  IF e = 0 THEN Ch(text, i) \o C4_KeepUnknown(text, scope, i + 1)
             ELSE (IF name \in DOMAIN scope THEN scope[name] ELSE SubSeq(text, i, e))
                      \o C4_KeepUnknown(text, scope, e + 1)

\* C4: _substitute_variables leaves a placeholder of an unknown name as it is,
\* character for character, blanks inside the braces included, and leaves the
\* text outside placeholders as it is.
C4_UnknownPlaceholderUnchanged ==
    subst.done => subst.out = C4_KeepUnknown(subst.text, subst.variables, 1)

\* C5: when the variables text is not parseable as JSON, process_poml returns at
\* once a prompt that contains "Error" and metadata with a non-empty error, and the
\* markup is never parsed: neither parser runs, no element is processed, no file
\* is read.
C5_MalformedJsonShortCircuits ==
    pc # "idle" /\ MalformedJson(variables_json) =>
        /\ Returned_
        /\ Contains(result.prompt, "Error")
        /\ "error" \in DOMAIN result.metadata
        /\ result.metadata["error"] # ""
        /\ calls = NoCalls
        /\ idx = 0
        /\ parsed_data = EmptyModel(EmptyDict)

\* C5's case: the call with the variables text {bad has returned
C5_Witness == Returned_ /\ variables_json = "{bad" /\ result.metadata["error"] # ""

\* C6: when the normalized markup is no well-formed tree, the built-in parser does
\* not let the failure out: it returns the model with the default role and task,
\* empty lists and an error, and process_poml returns the fallback prompt made of
\* that role and task, with metadata carrying the same error, and does not render
\* the model.
C6_ParseErrorFallsBack ==
    calls.fallback > 0 /\ ~poml_template.wellformed =>
        /\ pc \in {"check", "returned"}
        /\ exception = "none"
        /\ parsed_data.has_error
        /\ parsed_data.error # ""
        /\ parsed_data.role = "Assistant"
        /\ parsed_data.task = "Help the user"
        /\ parsed_data.examples = <<>>
        /\ parsed_data.documents = <<>>
        /\ parsed_data.tables = <<>>
        /\ parsed_data.images = <<>>
        /\ calls.elements = 0
        /\ Returned_ =>
               /\ Contains(result.prompt, "Fallback: Assistant - Help the user")
               /\ Contains(result.prompt, parsed_data.error)
               /\ "error" \in DOMAIN result.metadata
               /\ result.metadata["error"] = parsed_data.error
               /\ "prompt_length" \notin DOMAIN result.metadata
               /\ ~Contains(result.prompt, render(parsed_data, render_mode))

\* C6's case: the built-in parser met the malformed markup and the call returned
C6_Witness ==
    /\ Returned_
    /\ poml_template = MalformedTemplate
    /\ calls.fallback = 1
    /\ parsed_data.sdk_used = "error"

\* C7: parse tries the SDK first, and only when the capability is there; when the
\* attempt fails the built-in parser runs on the same markup with the caller's
\* variables and the failure goes no further; the model is tagged 'official' only
\* if the SDK attempt succeeded, and 'fallback' or 'error' otherwise.
C7_SdkFirstThenFallback ==
    /\ calls.sdk > 0 => DEPENDENCIES_AVAILABLE["poml"]
    /\ calls.fallback > 0 /\ DEPENDENCIES_AVAILABLE["poml"] => calls.sdk > 0 /\ sdk_result = "failed"
    /\ calls.sdk <= 1 /\ calls.fallback <= 1
    /\ sdk_result = "failed" =>
           /\ pc # "raised" /\ exception = "none"
           /\ pc = "fallback" \/ calls.fallback = 1
           /\ pc = "fallback" => parser_variables = variables.dict /\ calls.elements = 0
    /\ sdk_result = "ok" => calls.fallback = 0
    /\ pc \in {"check", "returned"} /\ (calls.sdk > 0 \/ calls.fallback > 0) =>
           /\ parsed_data.sdk_used = "official" <=> sdk_result = "ok"
           /\ sdk_result # "ok" => parsed_data.sdk_used \in {"fallback", "error"}

\* C7's case: the SDK attempt failed and the built-in parser produced the model
C7_Witness ==
    /\ Returned_
    /\ sdk_result = "failed"
    /\ calls.fallback = 1
    /\ parsed_data.sdk_used = "fallback"
    /\ parsed_data.task = "Do work"

\* C8: on the normal path, when max_length > 0 and the rendering is longer, the
\* prompt returned is the first max_length characters of the rendering followed by
\* "..."; otherwise it is the rendering.
C8_LengthLimit ==
    Returned_ /\ NormalPath =>
        LET rendering == render(parsed_data, render_mode)
        IN  IF max_length > 0 /\ Len(rendering) > max_length
            THEN /\ Len(result.prompt) = max_length + 3
                 /\ SubSeq(result.prompt, 1, max_length) = SubSeq(rendering, 1, max_length)
                 /\ SubSeq(result.prompt, max_length + 1, max_length + 3) = "..."
            ELSE result.prompt = rendering

\* C8's case: a rendering longer than the limit was cut
C8_Witness ==
    /\ Returned_ /\ NormalPath
    /\ max_length = 2
    /\ poml_template = HiTemplate
    /\ result.prompt = "Hi..."

\* the keys of the summary of a normal return
SummaryKeys ==
    {"mode", "sdk_used", "components_found", "variables_used", "prompt_length",
     "dependencies_status", "features_available"}

\* the metadata is the full summary of this call
FullSummary ==
    /\ SummaryKeys \subseteq DOMAIN result.metadata
    /\ result.metadata["mode"] = render_mode
    /\ result.metadata["sdk_used"] = parsed_data.sdk_used
    /\ result.metadata["components_found"] =
           [role |-> parsed_data.role # "", task |-> parsed_data.task # "",
            output_format |-> parsed_data.output_format # "",
            examples |-> Len(parsed_data.examples), documents |-> Len(parsed_data.documents),
            tables |-> Len(parsed_data.tables), images |-> Len(parsed_data.images)]
    /\ result.metadata["variables_used"] = DOMAIN parser_variables
    /\ result.metadata["prompt_length"] = Len(result.prompt)
    /\ result.metadata["dependencies_status"] = DEPENDENCIES_AVAILABLE
    /\ DOMAIN result.metadata["features_available"] =
           {"official_poml_sdk", "advanced_tables", "pdf_processing", "image_processing",
            "external_data", "json_validation"}
    /\ result.metadata["features_available"]["official_poml_sdk"] = DEPENDENCIES_AVAILABLE["poml"]
    /\ result.metadata["features_available"]["json_validation"] = DEPENDENCIES_AVAILABLE["jsonschema"]

\* C9 as stated: on every return path (normal, malformed variables, markup parse
\* error) the metadata holds the style, the parser, the counts, the flags of role,
\* task and output_format, the variable names, the prompt length and the
\* capabilities.
C9_SummaryOnEveryPath == Returned_ => FullSummary

\* C9 amended: on the normal return path the metadata holds all of that, the
\* prompt length being that of the prompt returned; on the two error paths it
\* holds the error and the style, and on a markup parse error the capability
\* flags too, and nothing else.
C9_SummaryOnNormalPath ==
    Returned_ =>
        IF NormalPath THEN FullSummary /\ "error" \notin DOMAIN result.metadata
        ELSE /\ result.metadata["error"] # ""
             /\ result.metadata["mode"] = render_mode
             /\ IF parsed_data.has_error
                THEN /\ DOMAIN result.metadata = {"error", "mode", "dependencies"}
                     /\ result.metadata["dependencies"] = DEPENDENCIES_AVAILABLE
                ELSE DOMAIN result.metadata = {"error", "mode"}

\* C9's case: a normal return whose prompt was cut, with a let-bound name in scope
C9_Witness ==
    /\ Returned_ /\ NormalPath
    /\ poml_template = LetTextTemplate
    /\ max_length = 1
    /\ result.metadata["prompt_length"] = 4
    /\ result.metadata["variables_used"] = {"t", "u"}

\* ---- C10 ----

\* the sections of a prompt in the order role, task, examples, documents,
\* tables, images, output format, an empty role, task or output format
\* leaving an empty slot
C10_Slots(model, style) ==
    << IF model.role = "" THEN "" ELSE Labelled(style, "Role: ", model.role),
       IF model.task = "" THEN "" ELSE Labelled(style, "Task: ", model.task) >>
    \o ExamplesParts(model, style)
    \o AttachmentParts(model)
    \o << IF model.output_format = "" THEN ""
          ELSE Labelled(style, "Output Format: ", model.output_format) >>

C10_NonEmpty(slots) == SelectSeq(slots, LAMBDA part : part # "")

EndsWith(s, suffix) ==
    Len(suffix) <= Len(s) /\ SubSeq(s, Len(s) - Len(suffix) + 1, Len(s)) = suffix

\* the rendering of FullTemplate with t bound to "work", in standard style
C10_FullStandard ==
    "R\n\nT\n\nExample 1:\n\nInput: work\n\nOutput: o\n\nDocument - Document:\n\nd\n\n"
    \o "Table - Table:\n\nh | {{t}}\n---------\n1 | {{t}}\n\nImage - I: a\n\nwork"

\* C10: a prompt that is returned whole (no length limit) on the normal path
\* is made of the non-empty sections in the order role, task, examples,
\* documents, tables, images, output format; in standard and optimized style
\* it is exactly those sections joined by a blank line, so it begins with the
\* first of them and ends with the last, and is empty when there is none.
\* <poml><role>Hi</role><task>Do {{t}}</task></poml> with {"t": "work"} gives
\* "Hi\n\nDo work" in standard style, and a template holding every kind of
\* element in the reverse order still renders in the fixed order.
C10_RenderOrder ==
    (Returned_ /\ NormalPath /\ max_length = 0 /\ render_mode \in {"standard", "optimized"}) =>
        LET parts == C10_NonEmpty(C10_Slots(parsed_data, render_mode))
        IN  /\ result.prompt = Join(parts, "\n\n")
            /\ Len(parts) = 0 => result.prompt = ""
            /\ Len(parts) > 0 =>
                   /\ StartsWith(result.prompt, parts[1])
                   /\ EndsWith(result.prompt, parts[Len(parts)])
            /\ (/\ calls.fallback > 0
                /\ render_mode = "standard"
                /\ variables_json = "{\"t\":\"work\"}") =>
                   /\ poml_template = HiTemplate => result.prompt = "Hi\n\nDo work"
                   /\ poml_template = FullTemplate => result.prompt = C10_FullStandard

\* the role-and-task template of the example has been rendered in standard
\* style by the built-in parser
C10_Witness ==
    /\ Returned_ /\ NormalPath
    /\ calls.fallback > 0
    /\ poml_template = HiTemplate
    /\ variables_json = "{\"t\":\"work\"}"
    /\ render_mode = "standard"
    /\ max_length = 0
    /\ result.prompt = "Hi\n\nDo work"

\* ---- C11 ----

\* C11: every example stored in the model is emitted by render, the k-th under
\* the label "Example k:", an example with both sides as "Example k:",
\* "Input: ..." and "Output: ...", and in optimized style after an "Examples:"
\* header.
C11_ExamplesEmitted ==
    (Returned_ /\ NormalPath /\ calls.fallback > 0 /\ max_length = 0) =>
        \A k \in 1..Len(parsed_data.examples) :
            LET example == parsed_data.examples[k]
            IN  /\ Contains(result.prompt, "Example " \o IntToStr(k) \o ":")
                /\ (example.input # "" /\ example.output # "") =>
                       /\ Contains(result.prompt, "Input: " \o example.input)
                       /\ Contains(result.prompt, "Output: " \o example.output)
                /\ render_mode = "optimized" => Contains(result.prompt, "Examples:")

\* ---- C12 ----

\* the attribute lists tried after the tag name of a self-closing tag
C12_AttributeLists == {"", " ", " b=\"c\"", " b=\"c\" "}

\* C12: a self-closing tag <a attrs/>, whatever its attribute list, comes out
\* of _preprocess_poml with the attributes kept in its opening tag and with a
\* closing tag that closes it, so that the text parses as one empty element
\* carrying those attributes.
C12_SelfClosingExpanded ==
    \A attrs \in C12_AttributeLists :
        (normalized.at = "parsed" /\ normalized.text = "<a" \o attrs \o "/>") =>
            /\ StartsWith(normalized.cleaned_poml, "<poml><a" \o attrs \o "></a")
            /\ EndsWith(normalized.cleaned_poml, "></poml>")
            /\ normalized.root =
                   Wellformed(<<Element("a", "", XmlAttributes(attrs, EmptyDict).attrib, <<>>)>>)

\* ---- C13 ----

\* C13: whatever the markup, the text that leaves _preprocess_poml has one
\* root element around the whole document: it is wrapped in <poml>...</poml>
\* unless the trimmed text begins with <poml>, and nothing follows the end of
\* the root element.
C13_SingleRoot ==
    normalized.at = "parsed" =>
        /\ ~StartsWith(Strip(normalized.text), "<poml>") =>
               /\ StartsWith(normalized.cleaned_poml, "<poml>")
               /\ EndsWith(normalized.cleaned_poml, "</poml>")
        /\ normalized.root.error # "content after the root element"

\* ---- C14 ----

\* the model and the scope the built-in parser reaches from the i-th root
\* child on when no other call runs and no file is named
RECURSIVE C14_Walk(_, _, _, _, _)
C14_Walk(children, i, model, scope, deps) ==
    IF i > Len(children) THEN model
    ELSE LET r == process_element(children[i], model, scope, NoFile, deps)
         IN  C14_Walk(children, i + 1, r.parsed_data, r.variables, deps)

\* what a call with these arguments returns when it runs alone with the
\* built-in parser
C14_Alone(template, mode, json, length, deps) ==
    LET v == validate_json_context(json, deps)
        model == C14_Walk(template.children, 1, EmptyModel(v.variables.dict),
                          v.variables.dict, deps)
        prompt == apply_length_limit(render(model, mode), length)
    IN  IF ~v.json_valid THEN json_error_return(v.json_error, mode)
        ELSE IF ~template.wellformed
        THEN parse_error_return(ErrorModel(template.error), mode, deps)
        ELSE [prompt |-> prompt, metadata |-> build_metadata(model, mode, prompt, deps)]

\* the names a call can have in scope: those of its variables_json and those
\* its own let elements bind
C14_OwnNames(template, json) ==
    DOMAIN validate_json_context(json, DEPENDENCIES_AVAILABLE).variables.dict
        \cup {template.children[i].attrib["name"] :
                 i \in {j \in 1..Len(template.children) :
                           /\ Lower(template.children[j].tag) = "let"
                           /\ "name" \in DOMAIN template.children[j].attrib}}

\* C14: two calls of process_poml share no mutable state.  However the two
\* calls are interleaved or ordered, the scope of a call holds only names of
\* its own variables_json or bound by its own let elements, and a call that
\* used the built-in parser returns what it returns when it runs alone: its
\* result is determined by its arguments and the capability flags.
C14_CallsIndependent ==
    /\ DOMAIN parser_variables \subseteq C14_OwnNames(poml_template, variables_json)
    /\ (Returned_ /\ calls.sdk = 0) =>
           result = C14_Alone(poml_template, render_mode, variables_json, max_length,
                              DEPENDENCIES_AVAILABLE)
    /\ (Returned_ /\ calls.sdk = 0 /\ poml_template = HiTemplate /\ variables_json = "") =>
           result.prompt = "Hi\n\nDo {{t}}"

\* a call without variables has returned its prompt with {{t}} left in it,
\* while the other call, begun earlier and not yet finished, has t in scope
C14_Witness ==
    /\ Returned_ /\ calls.fallback > 0
    /\ poml_template = HiTemplate /\ variables_json = ""
    /\ result.prompt = "Hi\n\nDo {{t}}"
    /\ suspended.pc = "elements"
    /\ "t" \in DOMAIN suspended.parser_variables

\* ---- C15 ----

\* no placeholder of the text, from index i on, has a name that is in scope
RECURSIVE C15_AllUnknown(_, _, _)
C15_AllUnknown(text, scope, i) ==
    IF i > Len(text) THEN TRUE
    ELSE LET e == MatchEnd(text, i)
         IN  IF e = 0 THEN C15_AllUnknown(text, scope, i + 1)
             ELSE /\ Strip(SubSeq(text, i + 2, e - 2)) \notin DOMAIN scope
                  /\ C15_AllUnknown(text, scope, e + 1)

\* C15: on a text none of whose placeholder names is in scope,
\* _substitute_variables applied twice gives what it gives applied once.
C15_Idempotent ==
    (subst.redone /\ C15_AllUnknown(subst.text, subst.variables, 1)) =>
        subst.twice = subst.out

\* a text with an unknown placeholder has been substituted twice: the first
\* pass rewrote the placeholder, the second left it
C15_Witness ==
    /\ subst.redone
    /\ subst.text = "a {{ y }} b"
    /\ subst.variables = ("x" :> "5")
    /\ subst.out = "a {{y}} b"
    /\ subst.twice = "a {{y}} b"

\* ---- C16 ----

\* what _load_excel_file returns when it takes the capability to be missing
C16_Unavailable == "Excel processing requires openpyxl. Install with: pip install openpyxl"

\* C16: when the src of a table is an existing .xlsx file, the loader gives
\* the capability-unavailable text only if a capability is missing from the
\* environment: where the flags record every optional capability as present,
\* the sheet is read and the table's content is not that text.
C16_SpreadsheetRead ==
    (/\ Returned_ /\ NormalPath
     /\ calls.fallback > 0
     /\ poml_template = SheetTemplate
     /\ calls.loads > 0) =>
        (parsed_data.tables[1].content = C16_Unavailable
            => DEPENDENCIES_AVAILABLE # FullEnvironment)

====
